---------------------------- MODULE Spec2Model ----------------------------
(***************************************************************************)
(* Model of the word-spotting game of src/App.tsx: the difficulty curve,   *)
(* the round generator (WordGenerator.generateWords), and the session      *)
(* controller WordQuizGame (one useState cell, two passive effects, one    *)
(* one-shot countdown timer, four event handlers), with the hook           *)
(* useFlickeringEffect of GameScreen (one useState cell, one interval).    *)
(*                                                                         *)
(* React semantics that the model makes explicit:                          *)
(*  - gameState is the state of the last committed render.  Handlers are   *)
(*    closures of that render; handleWordClick lists every field it reads  *)
(*    in its dependency array, so it always reads the committed state.     *)
(*    initializeGame lists only gameMode, so the currentStage it reads is  *)
(*    the one of the render in which gameMode last changed (initStage).    *)
(*  - Passive effects (useEffect) of a commit run after that commit and    *)
(*    before the next render.  lastDeps holds the dependency values of     *)
(*    the last commit whose effects have run; effects are pending while    *)
(*    it differs from the committed state.  An event (a press, the timer   *)
(*    callback) that arrives while effects are pending runs its handler    *)
(*    against the committed render, then React flushes the pending effects *)
(*    and renders the handler's update followed by the effects' updates.   *)
(*  - Korean word strings are written in Latin transliteration.            *)
(***************************************************************************)
EXTENDS Integers, Sequences, FiniteSets, TLC

VARIABLES
  gameState,   \* the useState cell of WordQuizGame (last committed render)
  initStage,   \* gameState.currentStage captured by the memoized initializeGame
  lastDeps,    \* effect dependencies of the last commit whose effects have run
  timerArmed,  \* a setTimeout of the countdown effect is outstanding
  timerFresh,  \* ... and it was set while running the effects before this commit
  flickeringIndices, \* the useState cell of useFlickeringEffect in GameScreen
  flickerInterval,   \* the setInterval of useFlickeringEffect and what it captured
  gen,         \* one run of WordGenerator.generateWords, statement by statement
  diff         \* one call of DifficultyCalculator.calculateStageDifficulty

vars == <<gameState, initStage, lastDeps, timerArmed, timerFresh,
          flickeringIndices, flickerInterval, gen, diff>>

---------------------------------------------------------------------------
(* Bounds of the exploration (not program constants). *)

\* Spec: correct taps are explored while currentStage < StageCap.
StageCap == 11
\* Spec, SpecCtl: the random index into WORD_SETS is drawn from 1..MaxSetIndex.
MaxSetIndex == 1
\* SpecCtl: stages (selected or reached) are explored up to CtlStageCap.
CtlStageCap == 2
\* SpecCtl: the countdown is explored for its first CtlTicks ticks.
CtlTicks == 2
\* SpecDiff: window widths explored are 160, 320, ... 160 * MaxWidthStep.
MaxWidthStep == 8
\* SpecFlicker: the random cell indices of a flicker tick are drawn from
\* 0..MaxFlickerIndex.
MaxFlickerIndex == 1
\* SpecFlicker: correct taps are explored while currentStage < FlickerStageCap.
FlickerStageCap == 6
\* SpecFlicker: the countdown is explored for its first FlickerCountdownTicks ticks.
FlickerCountdownTicks == 1

---------------------------------------------------------------------------
(* Constants of the program. *)

MAX_STAGE == 10
BASE_TIME_LIMIT == 20

WORD_SETS ==
  << [correct |-> "danggun",     baseWord |-> "danggeun"],
     [correct |-> "isik",        baseWord |-> "isak"],
     [correct |-> "maiseu",      baseWord |-> "mauseu"],
     [correct |-> "dalg'",       baseWord |-> "dalg"],
     [correct |-> "oktopbang",   baseWord |-> "oktapbang"],
     [correct |-> "ameorikano",  baseWord |-> "amerikano"],
     [correct |-> "peuropelleo", baseWord |-> "peuropella"],
     [correct |-> "miuseu",      baseWord |-> "mauseu"] >>

GameModes == {"easy", "hard"}

---------------------------------------------------------------------------
(* DifficultyCalculator.calculateStageDifficulty *)

baseCountZero(mode) == 0
baseCount(mode) == IF mode = "easy" THEN 20 ELSE 30

wordCountRounded(stage, mode) == (baseCount(mode) * (4 + (stage - 1)) + 2) \div 4
\* Math.floor(baseCount * (1 + (stage - 1) * 0.25)); 0.25 and the products
\* are exact in binary floating point, so this is floor(baseCount*(stage+3)/4).
wordCount(stage, mode) == (baseCount(mode) * (4 + (stage - 1))) \div 4

timeLimit(stage, mode) == BASE_TIME_LIMIT

\* The whole result for a window of the given width.  Sizes are kept as exact
\* integers: fontSize in tenths (16 is 160, 0.8 is 8), buttonSize in
\* thousandths (width * 0.10 is width * 100, 0.004 is 4).
calculateStageDifficulty(stage, mode, width) ==
  LET lastStageFontSize   == 160
      lastStageButtonSize == width * 100
  IN [ wordCount  |-> wordCount(stage, mode),
       fontSize   |-> lastStageFontSize + (MAX_STAGE - stage) * 8,
       buttonSize |-> lastStageButtonSize + (MAX_STAGE - stage) * 4,
       timeLimit  |-> timeLimit(stage, mode) ]

---------------------------------------------------------------------------
(* WordGenerator.generateWords.  Arrays are 0-based in the source and      *)
(* 1-based sequences here: source index i is sequence index i + 1.         *)

\* Array(wordCount).fill(baseWord), then [...wrongWords, correct]
InitialWords(stage, mode, set) ==
  [k \in 1..(wordCount(stage, mode) + 1) |->
     IF k <= wordCount(stage, mode) THEN set.baseWord ELSE set.correct]

SwapOverwrite(a, i, j) == [a EXCEPT ![i + 1] = a[j + 1]]
\* [allWords[i], allWords[j]] = [allWords[j], allWords[i]]
Swap(a, i, j) == [a EXCEPT ![i + 1] = a[j + 1], ![j + 1] = a[i + 1]]

\* The loop "for (i = length - 1; i > 0; i--)" run on every array of arrs
\* from index i downwards, with every choice of j = floor(random * (i + 1)).
RECURSIVE ShuffleFrom(_, _)
ShuffleFrom(arrs, i) ==
  IF i <= 0 THEN arrs
  ELSE ShuffleFrom({ Swap(a, i, j) : a \in arrs, j \in 0..i }, i - 1)

\* Every result generateWords(stage, mode) can return when the random index
\* into WORD_SETS is one of setIndices.
generateWords(stage, mode, setIndices) ==
  UNION { { [correctWord |-> WORD_SETS[k].correct, allWords |-> a] :
              a \in ShuffleFrom({InitialWords(stage, mode, WORD_SETS[k])},
                                wordCount(stage, mode)) } :
          k \in setIndices }

\* The results, tabulated once for the stages initializeGame is called with.
GenStages == 1..CtlStageCap
Rounds ==
  [stage \in GenStages, mode \in GameModes |->
     generateWords(stage, mode, 1..MaxSetIndex)]

---------------------------------------------------------------------------
(* GameStateManager.getInitialState *)

getInitialState ==
  [ currentStage       |-> 1,
    maxStage           |-> MAX_STAGE,
    timeLeft           |-> BASE_TIME_LIMIT,
    gameOver           |-> FALSE,
    correctWord        |-> "",
    allWords           |-> << >>,
    showStageSelection |-> TRUE,
    unlockedStages     |-> <<1>>,
    showWrongAnswer    |-> FALSE,
    gameMode           |-> "easy",
    flickeringIndices  |-> << >>,
    failureReason      |-> "wrong" ]

\* getCurrentScreen
getCurrentScreen(s) ==
  IF s.showWrongAnswer THEN "wrongAnswer"
  ELSE IF s.gameOver THEN "gameOver"
  ELSE IF s.showStageSelection THEN "stageSelection"
  ELSE "game"

Screen == getCurrentScreen(gameState)

\* The dependency arrays of the countdown effect, of the initialize effect and
\* of the effect of useFlickeringEffect (wordCount is allWords.length);
\* gameMode also stands for the identity of initializeGame (useCallback
\* [gameMode]).
Deps(s) ==
  [ timeLeft           |-> s.timeLeft,
    gameOver           |-> s.gameOver,
    showWrongAnswer    |-> s.showWrongAnswer,
    showStageSelection |-> s.showStageSelection,
    currentStage       |-> s.currentStage,
    gameMode           |-> s.gameMode,
    wordCount          |-> Len(s.allWords) ]

IdleGen == [pc |-> "idle"]
IdleDiff == [pc |-> "idle"]

\* no interval of useFlickeringEffect is set
NoInterval ==
  [on |-> FALSE, wordCount |-> 0, stage |-> 0, fresh |-> FALSE, spinning |-> FALSE]

Init ==
  /\ gameState = getInitialState
  /\ initStage = 1
  /\ lastDeps = Deps(getInitialState)
  /\ timerArmed = FALSE
  /\ timerFresh = FALSE
  /\ flickeringIndices = << >>
  /\ flickerInterval = NoInterval
  /\ gen = IdleGen
  /\ diff = IdleDiff


---------------------------------------------------------------------------
(* State updates passed to setGameState. *)

\* initializeGame: setGameState(prev => ({...prev, correctWord, allWords,
\* timeLeft: BASE_TIME_LIMIT, gameOver: false}))
InstallRound(prev, r) ==
  [prev EXCEPT !.correctWord = r.correctWord,
               !.allWords    = r.allWords,
               !.timeLeft    = BASE_TIME_LIMIT,
               !.gameOver    = FALSE]

\* countdown effect, "Time's up!" branch
TimeUp(prev) ==
  [prev EXCEPT !.showWrongAnswer = TRUE, !.failureReason = "timeout"]

\* countdown effect, setTimeout callback
Tick(prev) == [prev EXCEPT !.timeLeft = prev.timeLeft - 1]

\* handleStageSelect
StageSelectUpdate(prev, stage) ==
  [prev EXCEPT !.currentStage = stage,
               !.showStageSelection = FALSE,
               !.gameOver = FALSE]

CorrectUpdateNoMaxCheck(prev, nextStage) ==
  [prev EXCEPT !.currentStage = nextStage,
               !.unlockedStages =
                  Append(SelectSeq(prev.unlockedStages, LAMBDA s : s # nextStage),
                         nextStage),
               !.showStageSelection = FALSE,
               !.gameOver = FALSE]
\* handleWordClick, word === gameState.correctWord
CorrectUpdate(prev, nextStage) ==
  [prev EXCEPT !.currentStage = nextStage,
               !.unlockedStages =
                  IF nextStage <= prev.maxStage
                  THEN Append(SelectSeq(prev.unlockedStages, LAMBDA s : s # nextStage),
                              nextStage)
                  ELSE prev.unlockedStages,
               !.showStageSelection = FALSE,
               !.gameOver = FALSE]

\* handleWordClick, any other word
WrongUpdate(prev) ==
  [prev EXCEPT !.showWrongAnswer = TRUE, !.failureReason = "wrong"]

\* handleModeToggle
ModeToggleUpdate(prev) ==
  [prev EXCEPT !.gameMode = IF prev.gameMode = "easy" THEN "hard" ELSE "easy"]

---------------------------------------------------------------------------
(* The two passive effects of WordQuizGame. *)

\* the condition shared by both branches of the countdown effect
InPlay(s) == ~s.gameOver /\ ~s.showWrongAnswer /\ ~s.showStageSelection

TimerDepsChanged ==
  \/ lastDeps.timeLeft # gameState.timeLeft
  \/ lastDeps.gameOver # gameState.gameOver
  \/ lastDeps.showWrongAnswer # gameState.showWrongAnswer
  \/ lastDeps.showStageSelection # gameState.showStageSelection

InitDepsChanged ==
  \/ lastDeps.currentStage # gameState.currentStage
  \/ lastDeps.showStageSelection # gameState.showStageSelection
  \/ lastDeps.gameMode # gameState.gameMode

\* GameScreen, and with it useFlickeringEffect, is rendered for the screen
\* 'game' only; there isGameActive is true.  The effect of the hook runs when
\* GameScreen is mounted and when gameMode, wordCount or stage changed.
FlickerDepsChanged ==
  /\ InPlay(gameState)
  /\ \/ ~InPlay(lastDeps)
     \/ lastDeps.gameMode # gameState.gameMode
     \/ lastDeps.wordCount # Len(gameState.allWords)
     \/ lastDeps.currentStage # gameState.currentStage

\* GameScreen was unmounted by the committed render: the cleanup is pending
FlickerUnmounted == ~InPlay(gameState) /\ InPlay(lastDeps)

EffectsPending ==
  TimerDepsChanged \/ InitDepsChanged \/ FlickerDepsChanged \/ FlickerUnmounted

\* countdown effect: first branch arms setTimeout, second branch is time's up
TimerEffectArms    == TimerDepsChanged /\ InPlay(gameState) /\ gameState.timeLeft > 0
TimerEffectTimesUp == TimerDepsChanged /\ InPlay(gameState) /\ gameState.timeLeft = 0

\* effect of useFlickeringEffect: setInterval in Hard mode, else
\* setFlickeringIndices([])
FlickerEffectArmsAnyMode == FlickerDepsChanged
FlickerEffectArms   == FlickerDepsChanged /\ gameState.gameMode = "hard"
FlickerEffectClears == FlickerDepsChanged /\ ~FlickerEffectArms

\* initialize effect: if (!showStageSelection) initializeGame()
InitEffectRuns == InitDepsChanged /\ ~gameState.showStageSelection

\* A render commits state s: useCallback keeps initializeGame unless gameMode
\* changed, in which case the new closure captures s.currentStage.
Commit(s) ==
  /\ gameState' = s
  /\ initStage' = IF s.gameMode # gameState.gameMode THEN s.currentStage ELSE initStage
  /\ lastDeps' = Deps(gameState)

\* One event of the committed render: its update turns the committed state
\* into s1 (s1 = gameState for the bare flush of pending effects); fired tells
\* that the event is the setTimeout callback.  Pending effects of the committed
\* render run before the next render: cleanup (clearTimeout), the countdown
\* effect, the initialize effect with the memoized initializeGame; their
\* updates are queued behind the event's.
NoRound == [correctWord |-> "", allWords |-> << >>]

\* what the pending initialize effect can queue: a round from initializeGame
\* (called with no argument, so for the stage its closure holds), or nothing
RoundChoices ==
  IF InitEffectRuns THEN Rounds[initStage, gameState.gameMode] ELSE {NoRound}

\* the state of the next render: the event's update, then the effects' updates
Rendered(s1, r) ==
  LET s2 == IF TimerEffectTimesUp THEN TimeUp(s1) ELSE s1
  IN IF r = NoRound THEN s2 ELSE InstallRound(s2, r)

\* no update of flickeringIndices comes with the event
NoTick == <<-1>>

\* The interval after the pending effects have run: the cleanup clears it
\* (clearInterval), the effect sets a new one that captures wordCount and stage
\* of the committed render.
IntervalAfterEffects ==
  IF FlickerEffectArms
  THEN [on |-> TRUE, wordCount |-> Len(gameState.allWords),
        stage |-> gameState.currentStage, fresh |-> TRUE, spinning |-> FALSE]
  ELSE IF FlickerEffectClears \/ FlickerUnmounted THEN NoInterval
  ELSE [flickerInterval EXCEPT !.fresh = FALSE]

\* flickeringIndices in the render of state s: none while GameScreen is not
\* rendered, useState([]) when this render mounts it; otherwise the queued
\* updates in order, the interval callback's (tick) before the effect's.
FlickeringRendered(s, tick) ==
  IF getCurrentScreen(s) # "game" THEN << >>
  ELSE IF ~InPlay(gameState) THEN << >>
  ELSE IF FlickerEffectClears THEN << >>
  ELSE IF tick # NoTick THEN tick
  ELSE flickeringIndices

DispatchFlicker(s1, fired, tick) ==
  /\ ~flickerInterval.spinning
  /\ timerArmed' = IF TimerDepsChanged THEN TimerEffectArms
                   ELSE (timerArmed /\ ~fired)
  /\ timerFresh' = TimerEffectArms
  /\ flickerInterval' = IntervalAfterEffects
  /\ \E r \in RoundChoices :
       /\ Commit(Rendered(s1, r))
       /\ flickeringIndices' = FlickeringRendered(Rendered(s1, r), tick)
  /\ UNCHANGED <<gen, diff>>

Dispatch(s1, fired) == DispatchFlicker(s1, fired, NoTick)

\* passive effects of the last commit run with no event in between
EffectsFlush == EffectsPending /\ Dispatch(gameState, FALSE)

\* The setTimeout callback of the countdown effect.  The timeout is 1000 ms
\* and timers run in order of expiry, so a timer set while running the effects
\* that preceded this commit cannot expire before this commit's own effects
\* (scheduled at the commit) have run.
TimerFire ==
  /\ timerArmed
  /\ timerFresh => ~EffectsPending
  /\ Dispatch(Tick(gameState), TRUE)

\* Math.floor(Math.random() * wordCount), with the indices explored bounded
Draws(count) ==
  IF count = 0 THEN {0}
  ELSE { i \in 0..(count - 1) : i <= MaxFlickerIndex }

\* The setInterval callback of useFlickeringEffect (300 ms; like the countdown
\* timer, an interval set while running the effects before this commit cannot
\* expire before this commit's own effects have run).  With stage >= 5 the
\* do-while loop ends once a second index differs from the first; where no
\* such index exists the callback never returns.
FlickerTick ==
  /\ flickerInterval.on
  /\ ~flickerInterval.spinning
  /\ flickerInterval.fresh => ~EffectsPending
  /\ IF flickerInterval.stage >= 5 /\ flickerInterval.wordCount <= 1
     THEN /\ flickerInterval' = [flickerInterval EXCEPT !.spinning = TRUE]
          /\ UNCHANGED <<gameState, initStage, lastDeps, timerArmed, timerFresh,
                         flickeringIndices, gen, diff>>
     ELSE \E first \in Draws(flickerInterval.wordCount) :
            IF flickerInterval.stage >= 5
            THEN \E secondIndex \in Draws(flickerInterval.wordCount) \ {first} :
                   DispatchFlicker(gameState, FALSE, <<first, secondIndex>>)
            ELSE DispatchFlicker(gameState, FALSE, <<first>>)

---------------------------------------------------------------------------
(* Event handlers of WordQuizGame. *)

handleStageSelect(stage) == Dispatch(StageSelectUpdate(gameState, stage), FALSE)

WordClickUpdate(word) ==
  IF word = gameState.correctWord
  THEN CorrectUpdate(gameState, gameState.currentStage + 1)
  ELSE WrongUpdate(gameState)

handleWordClick(word) ==
  /\ ~(gameState.gameOver \/ gameState.showWrongAnswer)
  /\ Dispatch(WordClickUpdate(word), FALSE)

handleModeToggle == Dispatch(ModeToggleUpdate(gameState), FALSE)

handleBackToMainKeepUnlocked ==
  Dispatch([getInitialState EXCEPT !.unlockedStages = gameState.unlockedStages], FALSE)
handleBackToMain == Dispatch(getInitialState, FALSE)

---------------------------------------------------------------------------
(* The application as wired: the screens offer only their own controls.    *)
(* (The interval of useFlickeringEffect is set and cleared by the effects; *)
(* its ticks, which touch flickeringIndices only, are left to SpecFlicker.) *)

\* StageSelectionScreen: stage button, onPress guarded by unlockedStages
PressStage ==
  /\ Screen = "stageSelection"
  /\ \E stage \in 1..gameState.maxStage :
       /\ \E k \in 1..Len(gameState.unlockedStages) : gameState.unlockedStages[k] = stage
       /\ handleStageSelect(stage)

\* StageSelectionScreen: either mode button
PressModeToggle == Screen = "stageSelection" /\ handleModeToggle

\* GameScreen: one button per entry of allWords, onPress passes its word
WordsOnScreen == { gameState.allWords[k] : k \in 1..Len(gameState.allWords) }

PressWord ==
  /\ Screen = "game"
  /\ \E word \in WordsOnScreen :
       /\ word = gameState.correctWord => gameState.currentStage < StageCap
       /\ handleWordClick(word)

\* WrongAnswerScreen: back button
PressBack == Screen = "wrongAnswer" /\ handleBackToMain

Next ==
  \/ PressStage
  \/ PressModeToggle
  \/ PressWord
  \/ PressBack
  \/ TimerFire
  \/ EffectsFlush

Spec == Init /\ [][Next]_vars

---------------------------------------------------------------------------
(* The application as wired, with the interval of useFlickeringEffect      *)
(* ticking; the stages and the countdown are explored up to the bounds.    *)

FlkPressWord ==
  /\ Screen = "game"
  /\ \E word \in WordsOnScreen :
       /\ word = gameState.correctWord => gameState.currentStage < FlickerStageCap
       /\ handleWordClick(word)

FlkTimerFire == gameState.timeLeft > BASE_TIME_LIMIT - FlickerCountdownTicks /\ TimerFire

NextFlicker ==
  \/ PressStage
  \/ PressModeToggle
  \/ FlkPressWord
  \/ PressBack
  \/ FlkTimerFire
  \/ FlickerTick
  \/ EffectsFlush

SpecFlicker == Init /\ [][NextFlicker]_vars

---------------------------------------------------------------------------
(* The controller alone: the four intents arrive in any state, as the      *)
(* handlers of WordQuizGame accept them (no screen guards them).           *)

\* the words a caller may pass to handleWordClick
CtlWords ==
  {""} \cup { WORD_SETS[k].correct : k \in 1..MaxSetIndex }
       \cup { WORD_SETS[k].baseWord : k \in 1..MaxSetIndex }

CtlSelectStage == \E stage \in 1..CtlStageCap : handleStageSelect(stage)

CtlToggleMode == handleModeToggle

CtlTapWord ==
  \E word \in CtlWords :
    /\ word = gameState.correctWord => gameState.currentStage < CtlStageCap
    /\ handleWordClick(word)

CtlBackToMain == handleBackToMain

CtlTimerFire == gameState.timeLeft > BASE_TIME_LIMIT - CtlTicks /\ TimerFire

NextCtl ==
  \/ CtlSelectStage
  \/ CtlToggleMode
  \/ CtlTapWord
  \/ CtlBackToMain
  \/ CtlTimerFire
  \/ EffectsFlush

SpecCtl == Init /\ [][NextCtl]_vars

---------------------------------------------------------------------------
(* One call of WordGenerator.generateWords, statement by statement.        *)

\* lines 83-87: pick the set, compute the difficulty, build the array
GenStart ==
  /\ gen.pc = "idle"
  /\ \E stage \in 1..MAX_STAGE, mode \in GameModes, k \in 1..Len(WORD_SETS) :
       gen' = [ pc          |-> "loop",
                stage       |-> stage,
                mode        |-> mode,
                correctWord |-> WORD_SETS[k].correct,
                baseWord    |-> WORD_SETS[k].baseWord,
                allWords    |-> InitialWords(stage, mode, WORD_SETS[k]),
                i           |-> wordCount(stage, mode) ]
  /\ UNCHANGED <<gameState, initStage, lastDeps, timerArmed, timerFresh,
                 flickeringIndices, flickerInterval, diff>>

\* lines 90-93: one iteration of the Fisher-Yates loop
GenLoop ==
  /\ gen.pc = "loop"
  /\ gen.i > 0
  /\ \E j \in 0..gen.i :
       gen' = [gen EXCEPT !.allWords = Swap(gen.allWords, gen.i, j),
                          !.i = gen.i - 1]
  /\ UNCHANGED <<gameState, initStage, lastDeps, timerArmed, timerFresh,
                 flickeringIndices, flickerInterval, diff>>

\* line 95: return { correctWord, allWords }
GenReturn ==
  /\ gen.pc = "loop"
  /\ gen.i <= 0
  /\ gen' = [gen EXCEPT !.pc = "done"]
  /\ UNCHANGED <<gameState, initStage, lastDeps, timerArmed, timerFresh,
                 flickeringIndices, flickerInterval, diff>>

NextGen == GenStart \/ GenLoop \/ GenReturn

SpecGen == Init /\ [][NextGen]_vars

---------------------------------------------------------------------------
(* One call of DifficultyCalculator.calculateStageDifficulty, for any stage, *)
(* mode and window width (Dimensions.get('window').width).                  *)

Widths == { 160 * k : k \in 1..MaxWidthStep }

DiffCall ==
  /\ diff.pc = "idle"
  /\ \E stage \in 1..MAX_STAGE, mode \in GameModes, width \in Widths :
       diff' = [ pc     |-> "done",
                 stage  |-> stage,
                 mode   |-> mode,
                 width  |-> width,
                 result |-> calculateStageDifficulty(stage, mode, width) ]
  /\ UNCHANGED <<gameState, initStage, lastDeps, timerArmed, timerFresh,
                 flickeringIndices, flickerInterval, gen>>

DiffReset ==
  /\ diff.pc = "done"
  /\ diff' = IdleDiff
  /\ UNCHANGED <<gameState, initStage, lastDeps, timerArmed, timerFresh,
                 flickeringIndices, flickerInterval, gen>>

NextDiff == DiffCall \/ DiffReset

SpecDiff == Init /\ [][NextDiff]_vars

---------------------------------------------------------------------------
(* Properties. *)

Unlocked == { gameState.unlockedStages[k] : k \in 1..Len(gameState.unlockedStages) }

\* the number of cells of the round equal to its correct word
CorrectCells(s) == Cardinality({ k \in 1..Len(s.allWords) : s.allWords[k] = s.correctWord })

\* the round installed in the committed state is the one its effects produced
RoundInstalled == Screen = "game" /\ ~EffectsPending

\* C1: once the round of the running session has been (re)generated, it has
\* the size of the current stage and mode: decoyCount(currentStage, mode) + 1.
C1_RoundSizedForCurrentStage ==
  RoundInstalled =>
    Len(gameState.allWords) = wordCount(gameState.currentStage, gameState.gameMode) + 1

\* C2: a correct tap at stage MAX_STAGE ends the session: the screen leaves
\* Playing, no round is started and currentStage stays within MAX_STAGE.
C2_SessionCompleteAtMaxStage ==
  [][ (Screen = "game" /\ gameState.currentStage = MAX_STAGE
        /\ handleWordClick(gameState.correctWord))
      => /\ getCurrentScreen(gameState') # "game"
         /\ gameState'.currentStage <= MAX_STAGE
         /\ gameState'.allWords = gameState.allWords ]_vars

\* C3: selectStage of a stage that is not unlocked leaves the session state
\* unchanged.
C3_LockedStageIgnored ==
  [][ \A stage \in 1..MAX_STAGE :
        (stage \notin Unlocked /\ handleStageSelect(stage))
          => gameState' = gameState ]_vars

\* C4: from Playing, a tap on a word other than the correct word leads to
\* RoundLost with reason WrongTap, and a tap on the correct word never leads
\* to RoundLost.
C4_TapOutcome ==
  Screen = "game" =>
    \A word \in WordsOnScreen : \A r \in RoundChoices :
      LET next == Rendered(WordClickUpdate(word), r)
      IN IF word # gameState.correctWord
         THEN /\ getCurrentScreen(next) = "wrongAnswer"
              /\ next.failureReason = "wrong"
         ELSE getCurrentScreen(next) # "wrongAnswer"

\* C5: timeLeft never goes below 0, and from Playing with the countdown at 0
\* the only outcome is RoundLost with reason Timeout: no stage advance, no
\* WrongTap reason, no further Playing state.
C5_TimeoutOnly ==
  /\ [](gameState.timeLeft >= 0)
  /\ [][ (Screen = "game" /\ gameState.timeLeft = 0)
         => /\ getCurrentScreen(gameState') = "wrongAnswer"
            /\ gameState'.failureReason = "timeout"
            /\ gameState'.currentStage = gameState.currentStage ]_vars

\* C6: a tap on a word while the screen is not Playing leaves the session
\* state unchanged.
C6_TapOutsidePlayingIgnored ==
  [][ \A word \in CtlWords :
        (Screen # "game" /\ handleWordClick(word)) => gameState' = gameState ]_vars

\* toggleMode was taken while Playing with the round installed, and the
\* effects of that commit (which only gameMode changed) have not run yet
ModeTogglePending ==
  /\ Screen = "game"
  /\ lastDeps.gameMode # gameState.gameMode
  /\ lastDeps.currentStage = gameState.currentStage
  /\ lastDeps.showStageSelection = gameState.showStageSelection
  /\ ~TimerDepsChanged

\* C7: toggleMode while a round is in progress leaves the active round and
\* timeLeft as they are, in the handler's commit and in the effects that
\* commit triggers.
C7_ToggleKeepsRound ==
  [][ ((RoundInstalled /\ handleModeToggle) \/ (ModeTogglePending /\ EffectsFlush))
      => /\ gameState'.allWords = gameState.allWords
         /\ gameState'.correctWord = gameState.correctWord
         /\ gameState'.timeLeft = gameState.timeLeft ]_vars

\* C8: whenever the screen is Playing, exactly one cell of the active round
\* equals correctWord.
C8_OneCorrectCellWhilePlaying ==
  Screen = "game" => CorrectCells(gameState) = 1

\* C9: generateWords returns decoyCount(stage, mode) + 1 cells, exactly one of
\* them equal to correctWord and all others equal to the pair's decoy word,
\* which differs from correctWord for every catalog entry.
C9_GeneratedRound ==
  /\ \A k \in 1..Len(WORD_SETS) : WORD_SETS[k].correct # WORD_SETS[k].baseWord
  /\ gen.pc = "done" =>
       /\ Len(gen.allWords) = wordCount(gen.stage, gen.mode) + 1
       /\ Cardinality({ k \in 1..Len(gen.allWords) : gen.allWords[k] = gen.correctWord }) = 1
       /\ \A k \in 1..Len(gen.allWords) : gen.allWords[k] \in {gen.correctWord, gen.baseWord}

\* a stage 5 Hard round has been returned, with the correct word moved away
\* from the last cell
C9_Witness ==
  /\ gen.pc = "done"
  /\ gen.stage = 5
  /\ gen.mode = "hard"
  /\ Len(gen.allWords) = 61
  /\ gen.allWords[61] # gen.correctWord

\* C10: unlockedStages always contains 1 and only stages 1..MAX_STAGE, and no
\* step other than backToMain removes a member.
C10_UnlockMonotone ==
  /\ [](1 \in Unlocked /\ Unlocked \subseteq 1..MAX_STAGE)
  /\ [][ \/ Unlocked \subseteq
              { gameState'.unlockedStages[k] : k \in 1..Len(gameState'.unlockedStages) }
         \/ handleBackToMain ]_vars

\* the correct word was tapped at stage MAX_STAGE and all ten stages are unlocked
C10_Witness ==
  /\ gameState.currentStage = MAX_STAGE + 1
  /\ Unlocked = 1..MAX_STAGE

\* C11: backToMain from RoundLost is a full reset: the next render shows
\* StageSelect with currentStage 1, unlockedStages [1], mode Easy and no
\* active round (no cells, no correct word).
C11_BackToMainFullReset ==
  Screen = "wrongAnswer" =>
    \A r \in RoundChoices :
      LET next == Rendered(getInitialState, r)
      IN /\ getCurrentScreen(next) = "stageSelection"
         /\ next.currentStage = 1
         /\ next.unlockedStages = <<1>>
         /\ next.gameMode = "easy"
         /\ next.allWords = << >>
         /\ next.correctWord = ""

\* C12: every round start resets the countdown: a step in which initializeGame
\* installs a round and play goes on shows timeLeft = BASE_TIME_LIMIT, and the
\* only countdown timer outstanding after it was set while starting that round
\* (no timer of the previous round is left to tick the new one).
C12_RoundStartResetsCountdown ==
  [][ (InitEffectRuns /\ getCurrentScreen(gameState') = "game")
      => /\ gameState'.timeLeft = BASE_TIME_LIMIT
         /\ timerArmed' => timerFresh' ]_vars

\* C13: outside Playing (StageSelect, RoundLost) the countdown and the round
\* are frozen: a step taken there leaves timeLeft, allWords and correctWord
\* as they are, unless it is the reset of backToMain to the initial state.
C13_FrozenOutsidePlaying ==
  [][ Screen # "game"
      => \/ gameState' = getInitialState
         \/ /\ gameState'.timeLeft = gameState.timeLeft
            /\ gameState'.allWords = gameState.allWords
            /\ gameState'.correctWord = gameState.correctWord ]_vars

\* C16: for every stage 1..10 the decoy count is floor(baseCount * (1 +
\* (stage - 1) * 0.25)) with baseCount 20 in Easy and 30 in Hard (20 at stage 1
\* Easy, 60 at stage 5 Hard), and the time limit is 20 for every stage and mode.
C16_DecoyCountAndTimeLimit ==
  diff.pc = "done" =>
    LET b == IF diff.mode = "easy" THEN 20 ELSE 30
        d == diff.result.wordCount
    IN /\ 4 * d <= b * (4 + (diff.stage - 1))
       /\ b * (4 + (diff.stage - 1)) < 4 * (d + 1)
       /\ (diff.stage = 1 /\ diff.mode = "easy") => d = 20
       /\ (diff.stage = 5 /\ diff.mode = "hard") => d = 60
       /\ diff.result.timeLimit = 20

\* the difficulty of stage 5 Hard has been computed: 60 decoys
C16_Witness ==
  /\ diff.pc = "done"
  /\ diff.stage = 5
  /\ diff.mode = "hard"
  /\ diff.result.wordCount = 60

\* C17: for every stage 1..10 and window width W, buttonSize is
\* 0.10 * W + (10 - stage) * 0.004 * W (in thousandths: 100 W + (10 - stage) 4 W).
C17_ButtonSizeScalesWithWidth ==
  diff.pc = "done" =>
    diff.result.buttonSize = 100 * diff.width + (10 - diff.stage) * 4 * diff.width

\* C19: a round is won at most once: every step that changes currentStage
\* during play raises it by exactly 1, and it is taken only when the round on
\* screen was generated after the previous change of currentStage (no
\* initialize effect is still pending).
C19_RoundWonOnce ==
  [][ (Screen = "game" /\ gameState'.currentStage # gameState.currentStage)
      => /\ gameState'.currentStage = gameState.currentStage + 1
         /\ ~InitEffectRuns ]_vars

\* C20: whenever the screen is StageSelect, unlockedStages is [1] and
\* currentStage is 1, so a stage button can only start play at stage 1.
C20_StageSelectOnlyStageOne ==
  /\ [](Screen = "stageSelection" => (Unlocked = {1} /\ gameState.currentStage = 1))
  /\ [][ (Screen = "stageSelection" /\ getCurrentScreen(gameState') = "game")
         => gameState'.currentStage = 1 ]_vars

\* back on StageSelect right after a round was lost at a stage above 1
C20_Witness ==
  /\ Screen = "stageSelection"
  /\ lastDeps.showWrongAnswer
  /\ lastDeps.currentStage > 1
  /\ Unlocked = {1}

\* the indices of flickeringIndices, as a set
FlickerSet == { flickeringIndices[k] : k \in 1..Len(flickeringIndices) }

\* C14: in Hard mode during play, once the scheduler has emitted a set, the
\* flicker index set has exactly 1 element while currentStage < 5 and exactly
\* 2 distinct elements while currentStage is in 5..MAX_STAGE, also right after
\* the correct tap that moves the session from stage 4 to stage 5.
C14_FlickerCardinality ==
  (Screen = "game" /\ gameState.gameMode = "hard" /\ flickeringIndices # << >>
     /\ gameState.currentStage <= MAX_STAGE)
  => /\ Len(flickeringIndices) = IF gameState.currentStage < 5 THEN 1 ELSE 2
     /\ Cardinality(FlickerSet) = Len(flickeringIndices)

C18_SecondIndexExists ==
  /\ ~flickerInterval.spinning
  /\ (flickerInterval.on /\ flickerInterval.stage >= 5)
       => /\ flickerInterval.wordCount >= 2
          /\ \A first \in Draws(flickerInterval.wordCount) :
               Draws(flickerInterval.wordCount) \ {first} # {}
  /\ (Screen = "game" /\ gameState.gameMode = "hard" /\ gameState.currentStage >= 5)
       => Len(gameState.allWords) >= 2

\* a tick for stage 5 has emitted two indices while the round of stage 4 is
\* still on screen (the initialize effect of the stage change is pending)
C18_Witness ==
  /\ Screen = "game"
  /\ flickerInterval.on
  /\ flickerInterval.stage = 5
  /\ Len(flickeringIndices) = 2
  /\ InitEffectRuns

=============================================================================
